---- MODULE Spec2Model ----
(***************************************************************************)
(* Process-control engine of the debugger (package proctl): the breakpoint *)
(* table, Step, Continue and Next of DebuggedProcess, run against a small  *)
(* traced program.  Every exposed command is one action; the kernel calls  *)
(* it makes (ptrace requests, wait4) are counted, and one of them may be   *)
(* made to fail.                                                           *)
(***************************************************************************)
EXTENDS Integers, Sequences, FiniteSets, TLC

(* ---------------- bounds ---------------- *)
MaxN == 1
MaxBP == 1
MaxFault == 7
MaxNextFault == 21
MaxSigAt == 2
StackSize == 4

(* ---------------- program constants ---------------- *)
INT3 == 204

(* readString reads this many bytes at the string's data pointer. *)
WindowLen == 16

NoErr == "nil"

(* ---------------- state ---------------- *)
VARIABLES
  mem,          \* tracee code memory, one byte per address
  Rip,          \* tracee program counter
  Rsp,          \* tracee stack pointer, as a slot index
  stk,          \* tracee stack
  heap,         \* tracee data outside the stack: the bytes at HeapBase
  n,            \* tracee data: the argument f counts down
  depth,        \* number of activations below the current one
  run,          \* "stopped", "running" (resumed, no stop collected yet) or "exited"
  hit,          \* address of the trap byte the tracee executed last, 0 if none
  ev,           \* cause of the tracee's last state change: "sig", "trap" or "exited"
  BreakPoints,  \* DebuggedProcess.BreakPoints
  ProcessState, \* DebuggedProcess.ProcessState
  dbg,          \* the debugger itself: "ready", "panicked" or "hung"
  DWARF,        \* what Executable.DWARF() yields: an error or the debug-info entries
  kern,         \* a multi-threaded target: its kernel threads, wait group and text
  Threads,      \* DebuggedProcess.Threads
  CurrentThread, \* DebuggedProcess.CurrentThread: a position in Threads, 0 for nil
  ctor,         \* where NewDebugProcess stands in its loop over the thread ids
  cmd,          \* the command in progress on the thread contexts, or the last one
  load,         \* LoadInformation in progress: its goroutines, wait group and results
  last          \* the last command and what it returned

vars == <<mem, Rip, Rsp, stk, heap, n, depth, run, hit, ev, BreakPoints, ProcessState, dbg,
          DWARF, kern, Threads, CurrentThread, ctor, cmd, load, last>>

tracedVars == <<mem, Rip, Rsp, stk, heap, n, depth, run, hit, ev, BreakPoints, ProcessState, dbg,
                DWARF, last>>

processVars == <<tracedVars, load>>

threadVars == <<kern, Threads, CurrentThread, ctor, cmd>>

(* ---------------- the traced program ---------------- *)
(* main:  1 push            line 10                                        *)
(*        2 call f (2 b.)   line 11     byte 3 is an operand equal to 0xCC *)
(*        4 nop             line 11                                        *)
(*        5 exit            line 12                                        *)
(* f:     6 brz 10 (2 b.)   line 20     n = 0 -> 10, else n-- and go on    *)
(*        8 call f (2 b.)   line 21                                        *)
(*       10 ret             line 22                                        *)
CodeAddrs == 1..10

Prog ==
  ( 1 :> [kind |-> "push", len |-> 1, target |-> 0] ) @@
  ( 2 :> [kind |-> "call", len |-> 2, target |-> 6] ) @@
  ( 4 :> [kind |-> "nop",  len |-> 1, target |-> 0] ) @@
  ( 5 :> [kind |-> "exit", len |-> 1, target |-> 0] ) @@
  ( 6 :> [kind |-> "brz",  len |-> 2, target |-> 10] ) @@
  ( 8 :> [kind |-> "call", len |-> 2, target |-> 6] ) @@
  ( 10 :> [kind |-> "ret", len |-> 1, target |-> 0] )

InstrStarts == DOMAIN Prog

OrigByte == <<85, 232, 204, 144, 15, 116, 2, 232, 253, 195>>

LineTab == <<10, 11, 11, 11, 12, 20, 20, 21, 21, 22>>

Funcs ==
  { [name |-> "main.main", begin |-> 1, end |-> 6],
    [name |-> "main.f",    begin |-> 6, end |-> 11] }

(* gosym.Table.PCToLine: (file, line, fn), fn absent when no function      *)
(* covers pc.                                                              *)
PCToLine(pc) ==
  IF \E fn \in Funcs : fn.begin <= pc /\ pc < fn.end
  THEN LET fn == CHOOSE g \in Funcs : g.begin <= pc /\ pc < g.end
       IN [file |-> "prog.go", line |-> LineTab[pc], fn |-> <<fn.name>>]
  ELSE [file |-> "", line |-> 0, fn |-> <<>>]

(* frame.FrameDescriptionEntries.FDEForPC: the entry covering pc, if any.  *)
FDEForPC(pc) ==
  IF \E fn \in Funcs : fn.begin <= pc /\ pc < fn.end
  THEN << CHOOSE g \in Funcs : g.begin <= pc /\ pc < g.end >>
  ELSE << >>

Cover(fde, pc) == fde.begin <= pc /\ pc < fde.end

(* Offset (in stack slots) from the stack pointer to the return address:   *)
(* main pushes one slot with its first instruction, f keeps no frame.      *)
ReturnAddressOffset(fde, pc) ==
  IF fde.name = "main.main" /\ pc > 1 THEN 1 ELSE 0

(* ---------------- the tracee's processor ---------------- *)
Intact(s, a) ==
  \A i \in 0..(Prog[a].len - 1) : s.mem[a + i] = OrigByte[a + i]

NextStart(pc) ==
  IF \E a \in InstrStarts : a > pc
  THEN CHOOSE a \in InstrStarts : a > pc /\ \A b \in InstrStarts : b > pc => a <= b
  ELSE pc + 1

Fault(s) == [s EXCEPT !.ev = "sig"]

ExecInstr(s, a) ==
  LET in == Prog[a] IN
  CASE in.kind = "push" ->
         IF s.sp = 1 THEN Fault(s)
         ELSE [s EXCEPT !.sp = @ - 1, !.stk[s.sp - 1] = 0, !.pc = a + 1, !.ev = "run"]
    [] in.kind = "nop" -> [s EXCEPT !.pc = a + in.len, !.ev = "run"]
    [] in.kind = "call" ->
         IF s.sp = 1 THEN Fault(s)
         ELSE [s EXCEPT !.sp = @ - 1, !.stk[s.sp - 1] = a + in.len,
                        !.pc = in.target, !.depth = @ + 1, !.ev = "run"]
    [] in.kind = "ret" ->
         IF s.sp > StackSize THEN Fault(s)
         ELSE [s EXCEPT !.pc = s.stk[s.sp], !.sp = @ + 1, !.stk[s.sp] = 0,
                        !.depth = @ - 1, !.ev = "run"]
    [] in.kind = "brz" ->
         IF s.n = 0 THEN [s EXCEPT !.pc = in.target, !.ev = "run"]
         ELSE [s EXCEPT !.n = @ - 1, !.pc = a + in.len, !.ev = "run"]
    [] in.kind = "exit" -> [s EXCEPT !.run = "exited", !.ev = "exited"]

(* One instruction fetch at s.pc.  A trap byte stops the tracee with the   *)
(* PC one past it; bytes that are not an intact instruction are either     *)
(* fatal (a signal stop in place) or decode to something harmless, as the  *)
(* command's environment says.                                             *)
ExecOne(s) ==
  IF s.pc \notin CodeAddrs THEN Fault(s)
  ELSE IF s.mem[s.pc] = INT3 THEN
         [s EXCEPT !.pc = @ + 1, !.ev = "trap", !.hit = s.pc]
  ELSE IF s.pc \in InstrStarts /\ Intact(s, s.pc) THEN
         [ExecInstr(s, s.pc) EXCEPT !.hit = 0]
  ELSE IF s.env.kind = "skip" THEN
         [s EXCEPT !.pc = NextStart(s.pc), !.ev = "run", !.hit = 0]
  ELSE Fault(s)

RunFuel == 8 * (StackSize + 10)

RECURSIVE RunLoop(_, _, _)
RunLoop(s, k, fuel) ==
  IF fuel = 0 THEN Fault(s)
  ELSE IF s.env.kind = "signal" /\ k = s.env.at /\ ~s.signalled
       THEN [s EXCEPT !.ev = "sig", !.signalled = TRUE]
  ELSE LET e == ExecOne(s) IN
       IF e.ev = "run" THEN RunLoop(e, k + 1, fuel - 1) ELSE e

(* ---------------- kernel calls ---------------- *)
Tick(s) == [s EXCEPT !.nsys = @ + 1]

Faulted(s) == s.env.kind \in {"kernel", "ECHILD"} /\ s.env.at = s.nsys + 1

PtraceOK(s) == s.run = "stopped" /\ ~Faulted(s)

KErr(s) == [Tick(s) EXCEPT !.err = "kernel"]

KOk(s) == [Tick(s) EXCEPT !.err = NoErr]

PtraceGetRegs(s) == IF PtraceOK(s) THEN KOk(s) ELSE KErr(s)

PtraceSetRegs(s, newpc) ==
  IF PtraceOK(s) THEN [KOk(s) EXCEPT !.pc = newpc, !.hit = 0] ELSE KErr(s)

PtracePeekData(s, addr) ==
  IF PtraceOK(s) /\ addr \in CodeAddrs
  THEN [KOk(s) EXCEPT !.val = s.mem[addr], !.nread = @ + 1]
  ELSE KErr(s)

PtracePokeData(s, addr, byte) ==
  IF PtraceOK(s) /\ addr \in CodeAddrs
  THEN [KOk(s) EXCEPT !.mem[addr] = byte, !.nwrite = @ + 1]
  ELSE KErr(s)

PtracePeekText(s, slot) ==
  IF PtraceOK(s) /\ slot \in 1..StackSize
  THEN [KOk(s) EXCEPT !.val = s.stk[slot]]
  ELSE [KErr(s) EXCEPT !.val = 0]

(* The tracee resumed: it runs on from its PC; skipped records a resume    *)
(* from one past a trap byte it has just executed in place of an           *)
(* instruction of the program.  Until wait collects the stop the tracee    *)
(* counts as running.                                                      *)
Resumed(s, e) ==
  [e EXCEPT !.run = IF e.run = "exited" THEN "exited" ELSE "running",
            !.skipped = @ \/ (s.hit # 0 /\ s.pc = s.hit + 1 /\ OrigByte[s.hit] # INT3)]

PtraceSingleStep(s) ==
  IF PtraceOK(s)
  THEN LET e == ExecOne(s) IN
       Resumed(s, [KOk(e) EXCEPT !.ev = IF e.ev = "run" THEN "trap" ELSE e.ev])
  ELSE KErr(s)

PtraceCont(s) ==
  IF PtraceOK(s) THEN Resumed(s, KOk(RunLoop(s, 0, RunFuel))) ELSE KErr(s)

(* wait(pid): the status of the tracee's last state change, or an error:   *)
(* ECHILD when the tracee is gone, any other error leaves the stop         *)
(* uncollected.                                                            *)
wait(s) ==
  IF Faulted(s) THEN
    [Tick(s) EXCEPT !.err = s.env.kind, !.val = << >>,
                    !.run = IF s.env.kind = "ECHILD" THEN "exited" ELSE @,
                    !.echild = @ \/ s.env.kind = "ECHILD",
                    !.waitErr = @ \/ s.env.kind # "ECHILD"]
  ELSE [Tick(s) EXCEPT !.err = NoErr, !.val = << s.ev >>,
                       !.run = IF @ = "running" THEN "stopped" ELSE @]

(* ---------------- DebuggedProcess ---------------- *)
Registers(s) == PtraceGetRegs(s)

CurrentPC(s) ==
  LET r == Registers(s) IN
  IF r.err # NoErr THEN [r EXCEPT !.val = 0] ELSE [r EXCEPT !.val = r.pc]

(* Break without the test for a trap byte already present.                 *)
BreakNoExistsCheck(s, addr) ==
  LET src == PCToLine(addr) IN
  IF src.fn = << >> THEN
    [s EXCEPT !.err = "InvalidAddress", !.einfo = <<addr>>, !.ret = << >>]
  ELSE
    LET p == PtracePeekData(s, addr) IN
    IF p.err # NoErr THEN [p EXCEPT !.ret = << >>]
    ELSE
      LET q == PtracePokeData(p, addr, INT3) IN
      IF q.err # NoErr THEN [q EXCEPT !.ret = << >>]
      ELSE
        LET breakpoint == [FunctionName |-> src.fn[1], File |-> src.file,
                           Line |-> src.line, Addr |-> addr,
                           OriginalData |-> p.val]
        IN [q EXCEPT !.BreakPoints = (addr :> breakpoint) @@ q.BreakPoints,
                     !.ret = << breakpoint >>, !.err = NoErr]

(* Break that saves the byte at addr after writing the trap over it.       *)
BreakSavesAfterWrite(s, addr) ==
  LET src == PCToLine(addr) IN
  IF src.fn = << >> THEN
    [s EXCEPT !.err = "InvalidAddress", !.einfo = <<addr>>, !.ret = << >>]
  ELSE
    LET p == PtracePeekData(s, addr) IN
    IF p.err # NoErr THEN [p EXCEPT !.ret = << >>]
    ELSE IF p.val = INT3 THEN
      [p EXCEPT !.err = "BreakpointExists", !.einfo = <<src.file, src.line, addr>>,
                !.ret = << >>]
    ELSE
      LET q == PtracePokeData(p, addr, INT3) IN
      IF q.err # NoErr THEN [q EXCEPT !.ret = << >>]
      ELSE
        LET breakpoint == [FunctionName |-> src.fn[1], File |-> src.file,
                           Line |-> src.line, Addr |-> addr,
                           OriginalData |-> q.mem[addr]]
        IN [q EXCEPT !.BreakPoints = (addr :> breakpoint) @@ q.BreakPoints,
                     !.ret = << breakpoint >>, !.err = NoErr]

(* Break that reads tracee memory before resolving the address.            *)
BreakPeeksFirst(s, addr) ==
  LET src == PCToLine(addr)
      p == PtracePeekData(s, addr)
  IN
    IF p.err # NoErr THEN [p EXCEPT !.ret = << >>]
    ELSE IF src.fn = << >> THEN
      [p EXCEPT !.err = "InvalidAddress", !.einfo = <<addr>>, !.ret = << >>]
    ELSE IF p.val = INT3 THEN
      [p EXCEPT !.err = "BreakpointExists", !.einfo = <<src.file, src.line, addr>>,
                !.ret = << >>]
    ELSE
      LET q == PtracePokeData(p, addr, INT3) IN
      IF q.err # NoErr THEN [q EXCEPT !.ret = << >>]
      ELSE
        LET breakpoint == [FunctionName |-> src.fn[1], File |-> src.file,
                           Line |-> src.line, Addr |-> addr,
                           OriginalData |-> p.val]
        IN [q EXCEPT !.BreakPoints = (addr :> breakpoint) @@ q.BreakPoints,
                     !.ret = << breakpoint >>, !.err = NoErr]

Break(s, addr) ==
  LET src == PCToLine(addr) IN
  IF src.fn = << >> THEN
    [s EXCEPT !.err = "InvalidAddress", !.einfo = <<addr>>, !.ret = << >>]
  ELSE
    LET p == PtracePeekData(s, addr) IN
    IF p.err # NoErr THEN [p EXCEPT !.ret = << >>]
    ELSE IF p.val = INT3 THEN
      [p EXCEPT !.err = "BreakpointExists", !.einfo = <<src.file, src.line, addr>>,
                !.ret = << >>]
    ELSE
      LET q == PtracePokeData(p, addr, INT3) IN
      IF q.err # NoErr THEN [q EXCEPT !.ret = << >>]
      ELSE
        LET breakpoint == [FunctionName |-> src.fn[1], File |-> src.file,
                           Line |-> src.line, Addr |-> addr,
                           OriginalData |-> p.val]
        IN [q EXCEPT !.BreakPoints = (addr :> breakpoint) @@ q.BreakPoints,
                     !.ret = << breakpoint >>, !.err = NoErr]

(* Clear that restores the byte but leaves the record in the table.        *)
ClearKeepsRecord(s, pc) ==
  IF pc \notin DOMAIN s.BreakPoints THEN
    [s EXCEPT !.err = "NoBreakpoint", !.ret = << >>]
  ELSE
    LET bp == s.BreakPoints[pc]
        q == PtracePokeData(s, bp.Addr, bp.OriginalData)
    IN IF q.err # NoErr THEN [q EXCEPT !.ret = << >>]
       ELSE [q EXCEPT !.ret = << bp >>, !.err = NoErr]

(* Clear that drops the record before the write and does not put it back   *)
(* when the write fails.                                                   *)
ClearDeletesFirst(s, pc) ==
  IF pc \notin DOMAIN s.BreakPoints THEN
    [s EXCEPT !.err = "NoBreakpoint", !.ret = << >>]
  ELSE
    LET bp == s.BreakPoints[pc]
        d == [s EXCEPT !.BreakPoints = [a \in (DOMAIN s.BreakPoints) \ {pc} |-> s.BreakPoints[a]]]
        q == PtracePokeData(d, bp.Addr, bp.OriginalData)
    IN IF q.err # NoErr THEN [q EXCEPT !.ret = << >>]
       ELSE [q EXCEPT !.ret = << bp >>, !.err = NoErr]

Clear(s, pc) ==
  IF pc \notin DOMAIN s.BreakPoints THEN
    [s EXCEPT !.err = "NoBreakpoint", !.ret = << >>]
  ELSE
    LET bp == s.BreakPoints[pc]
        q == PtracePokeData(s, bp.Addr, bp.OriginalData)
    IN IF q.err # NoErr THEN [q EXCEPT !.ret = << >>]
       ELSE [q EXCEPT !.BreakPoints = [a \in (DOMAIN q.BreakPoints) \ {pc} |-> q.BreakPoints[a]],
                      !.ret = << bp >>, !.err = NoErr]

(* handleResult that returns without waiting for the resumed tracee.       *)
handleResultNoWait(s) == s

handleResult(s) ==
  IF s.err # NoErr THEN s
  ELSE
    LET w == wait(s) IN
    IF w.err # NoErr /\ w.err # "ECHILD" THEN w
    ELSE IF w.val # << >> THEN
      LET u == [w EXCEPT !.ProcessState = w.val[1]] IN
      IF w.val[1] = "sig" THEN
        LET r == Registers(u) IN
        IF r.err # NoErr THEN r ELSE [r EXCEPT !.err = NoErr]
      ELSE [u EXCEPT !.err = NoErr]
    ELSE [w EXCEPT !.err = NoErr]

(* Step that does not put back the breakpoint it stepped over.             *)
StepNoRestore(s) ==
  LET r == Registers(s) IN
  IF r.err # NoErr THEN r
  ELSE IF (r.pc - 1) \in DOMAIN r.BreakPoints THEN
    LET bp == r.BreakPoints[r.pc - 1]
        c == Clear(r, bp.Addr)
    IN IF c.err # NoErr THEN c
       ELSE
         LET w == PtraceSetRegs(c, bp.Addr) IN
         IF w.err # NoErr THEN w
         ELSE
           LET h == handleResult(PtraceSingleStep(w)) IN
           IF h.err # NoErr THEN [h EXCEPT !.err = "step failed", !.stepErr = "step failed"]
           ELSE h
  ELSE
    LET h == handleResult(PtraceSingleStep(r)) IN
    IF h.err # NoErr THEN [h EXCEPT !.err = "step failed", !.stepErr = "step failed"]
    ELSE h

(* Step.  The re-installation of a breakpoint stepped over is deferred: it *)
(* runs on every return taken after the register write-back, and assigns   *)
(* the named result err.                                                   *)
Step(s) ==
  LET r == Registers(s) IN
  IF r.err # NoErr THEN r
  ELSE IF (r.pc - 1) \in DOMAIN r.BreakPoints THEN
    LET bp == r.BreakPoints[r.pc - 1]
        c == Clear(r, bp.Addr)
    IN IF c.err # NoErr THEN c
       ELSE
         LET w == PtraceSetRegs(c, bp.Addr) IN
         IF w.err # NoErr THEN w
         ELSE
           LET h == handleResult(PtraceSingleStep(w))
               e == IF h.err # NoErr THEN [h EXCEPT !.err = "step failed"] ELSE h
           IN Break([e EXCEPT !.stepErr = e.err], bp.Addr)
  ELSE
    LET h == handleResult(PtraceSingleStep(r)) IN
    IF h.err # NoErr THEN [h EXCEPT !.err = "step failed", !.stepErr = "step failed"]
    ELSE h

(* Continue that returns after its Step, without resuming the tracee.      *)
ContinueStepsOnly(s) == Step(s)

Continue(s) ==
  LET st == Step(s) IN
  IF st.err # NoErr THEN st
  ELSE handleResult(PtraceCont(st))

Panic(s) == [s EXCEPT !.dbg = "panicked", !.err = "panic"]

(* ReturnAddressFromOffset: the word at rsp + offset; a failed read of the *)
(* word is ignored and yields 0, a failed register read panics.            *)
ReturnAddressFromOffset(s, offset) ==
  LET r == Registers(s) IN
  IF r.err # NoErr THEN Panic(r)
  ELSE [PtracePeekText(r, r.sp + offset) EXCEPT !.err = NoErr]

clearTempBreakpoint(s, pc) ==
  IF pc \in DOMAIN s.BreakPoints THEN
    LET r == Registers(s) IN
    IF r.err # NoErr THEN r
    ELSE
      LET c == Clear(r, r.BreakPoints[pc].Addr) IN
      IF c.err # NoErr THEN c
      ELSE PtraceSetRegs([c EXCEPT !.jumped = @ \/ ~(c.hit = pc /\ c.pc = pc + 1)],
                         c.ret[1].Addr)
  ELSE [s EXCEPT !.err = NoErr]

LoopFuel == StackSize + 10

(* The address of the tracee's data outside its stack. *)
HeapBase == StackSize + 2

Hang(s) == [s EXCEPT !.dbg = "hung", !.err = "hang"]

(* One pass through the body of continueToReturnAddress's loop; each       *)
(* statement is a local operator applied to the state its predecessor      *)
(* produced (read from the last one up).  loop is set when the pass ends   *)
(* at the bottom of the body rather than in a return.                      *)
ReturnPass(s) ==
  LET afterClear(t) ==
        IF t.err # NoErr THEN t ELSE [CurrentPC(t) EXCEPT !.loop = TRUE]
      afterContinue(c, bp) ==
        IF c.err # NoErr THEN c
        ELSE IF bp = << >> THEN Panic(c)
        ELSE afterClear(clearTempBreakpoint(c, bp[1].Addr))
      afterBreak(b) ==
        IF b.err # NoErr /\ b.err # "BreakpointExists" THEN b
        ELSE afterContinue(
               Continue([b EXCEPT !.temps = IF b.ret = << >> THEN @
                                            ELSE @ \cup {b.ret[1].Addr},
                                  !.collide = @ \/ b.err = "BreakpointExists"]),
               b.ret)
      afterAddr(a) ==
        IF a.dbg = "panicked" THEN a ELSE afterBreak(Break(a, a.val))
  IN afterAddr(ReturnAddressFromOffset(s, 0))

RECURSIVE continueToReturnAddress(_, _, _, _)
RECURSIVE ReturnLoop(_, _, _)
(* The state r a pass produced: returned, or handed to the loop's test.    *)
ReturnLoop(r, fde, fuel) ==
  IF r.loop
  THEN continueToReturnAddress([r EXCEPT !.loop = FALSE], r.val, fde, fuel)
  ELSE r

continueToReturnAddress(s, pc, fde, fuel) ==
  IF Cover(fde, pc) THEN [s EXCEPT !.err = NoErr]
  ELSE IF fuel = 0 THEN Hang(s)
  ELSE ReturnLoop(ReturnPass(s), fde, fuel - 1)

(* One pass through the body of Next's loop, written like ReturnPass.      *)
NextPass(s, l, fde, ret) ==
  LET lineCheck(q) ==
        IF q.dbg # "ready" THEN q
        ELSE IF PCToLine(q.val).line # l THEN [q EXCEPT !.err = NoErr]
        ELSE [q EXCEPT !.loop = TRUE]
      afterReturn(k) ==
        IF k.dbg # "ready" THEN k
        ELSE CurrentPC([k EXCEPT !.retErr = IF @ = NoErr THEN k.err ELSE @])
      afterPC(p) ==
        IF p.err # NoErr THEN p
        ELSE IF ~Cover(fde, p.val) /\ p.val # ret
        THEN lineCheck(afterReturn(continueToReturnAddress(p, p.val, fde, LoopFuel)))
        ELSE lineCheck(p)
      afterStep(st) ==
        IF st.err # NoErr THEN [st EXCEPT !.err = "next stepping failed"]
        ELSE afterPC(CurrentPC(st))
  IN afterStep(Step(s))

RECURSIVE NextLoop(_, _, _, _, _)
RECURSIVE NextAgain(_, _, _, _, _)
(* The state r a pass produced: returned, or handed to the next pass.      *)
NextAgain(r, l, fde, ret, fuel) ==
  IF r.loop
  THEN NextLoop([r EXCEPT !.loop = FALSE], l, fde, ret, fuel)
  ELSE r

NextLoop(s, l, fde, ret, fuel) ==
  IF fuel = 0 THEN Hang(s)
  ELSE NextAgain(NextPass(s, l, fde, ret), l, fde, ret, fuel - 1)

(* Next from its loop on: a is the state after the return address ret was *)
(* read, l the entry line, fde the entry covering the entry PC.            *)
NextFrom(a, l, fde) ==
  IF a.dbg = "panicked" THEN a
  ELSE NextLoop([a EXCEPT !.line0 = l], l, fde, a.val, LoopFuel)

(* Next from the lookup of the entry line on, pc being the entry PC after  *)
(* the rewind past a breakpoint.                                           *)
NextAt(c, pc) ==
  IF FDEForPC(pc) = << >> THEN [c EXCEPT !.err = "no fde"]
  ELSE NextFrom(ReturnAddressFromOffset(c, ReturnAddressOffset(FDEForPC(pc)[1], pc)),
                PCToLine(pc).line, FDEForPC(pc)[1])

(* Next after its first CurrentPC.                                         *)
NextEntry(c) ==
  IF c.err # NoErr THEN c
  ELSE NextAt(c, IF (c.val - 1) \in DOMAIN c.BreakPoints THEN c.val - 1 ELSE c.val)

DbpNext(s) == NextEntry(CurrentPC(s))

(* ---------------- the variable evaluator ---------------- *)
(* A debug-info entry: its tag, its name attribute, its type reference     *)
(* (absent, or the key of a type) and its location expression (absent, or  *)
(* the stack program "CFA plus k", given as k).                            *)
(* dwarf.Data.Type: the type a reference resolves to, or a decoding error. *)
DataType(ref) ==
  IF ref = "malformed" THEN [err |-> "decode", typ |-> ""]
  ELSE [err |-> NoErr, typ |-> ref]

(* frame context: the canonical frame address is one slot above the        *)
(* return address.                                                         *)
CFAOffset(fde, pc) == ReturnAddressOffset(fde, pc) + 1

(* op.ExecuteStackProgram for the program "CFA plus k".                    *)
ExecuteStackProgram(cfaOffset, instructions) == cfaOffset + instructions

Digits == <<"0", "1", "2", "3", "4", "5", "6", "7", "8", "9">>

RECURSIVE Itoa(_)
Itoa(i) ==
  IF i < 10 THEN << Digits[i + 1] >>
  ELSE Append(Itoa(i \div 10), Digits[(i % 10) + 1])

(* readMemory: the word at a data address; data addresses are stack slots. *)
readMemory(s, addr) ==
  IF PtraceOK(s) /\ addr \in 1..StackSize
  THEN [KOk(s) EXCEPT !.val = s.stk[addr]]
  ELSE [KErr(s) EXCEPT !.val = 0]

readInt(s, addr) ==
  LET m == readMemory(s, addr) IN
  IF m.err # NoErr THEN [m EXCEPT !.val = << >>]
  ELSE [m EXCEPT !.val = Itoa(m.val)]

(* The k low bytes of v, least significant first. *)
RECURSIVE LittleEndian(_, _)
LittleEndian(v, k) ==
  IF k = 0 THEN << >> ELSE << v % 256 >> \o LittleEndian(v \div 256, k - 1)

(* A word as the 8 bytes ptrace hands back. *)
WordBytes(v) == LittleEndian(v, 8)

(* readMemory(addr, 16): the bytes at HeapBase, or two stack words. *)
readWindow(s, addr) ==
  IF PtraceOK(s) /\ addr = HeapBase
  THEN [KOk(s) EXCEPT !.val = s.heap, !.window = << s.heap >>]
  ELSE IF PtraceOK(s) /\ addr \in 1..(StackSize - 1)
  THEN [KOk(s) EXCEPT !.val = WordBytes(s.stk[addr]) \o WordBytes(s.stk[addr + 1]),
                      !.window = << WordBytes(s.stk[addr]) \o WordBytes(s.stk[addr + 1]) >>]
  ELSE [KErr(s) EXCEPT !.val = << >>]

(* bytes.IndexByte: the 0-based index of the first c in b, or -1. *)
IndexByte(b, c) ==
  IF \E i \in DOMAIN b : b[i] = c
  THEN (CHOOSE i \in DOMAIN b : b[i] = c /\ \A j \in 1..(i - 1) : b[j] # c) - 1
  ELSE -1

(* A byte as it shows in the returned string: the letter it encodes, or    *)
(* the raw byte.                                                           *)
Char(b) ==
  IF b = 97 THEN <<"a">> ELSE IF b = 98 THEN <<"b">> ELSE <<"\\">> \o Itoa(b)

RECURSIVE Chars(_)
Chars(b) == IF b = << >> THEN << >> ELSE Char(Head(b)) \o Chars(Tail(b))

(* readString after the 16 bytes were read: val[:i] with i the index of    *)
(* the first NUL; a negative i panics (slice bounds out of range).         *)
readStringCut(w) ==
  IF w.err # NoErr THEN [w EXCEPT !.val = << >>]
  ELSE IF IndexByte(w.val, 0) < 0 THEN [Panic(w) EXCEPT !.val = << >>]
  ELSE [w EXCEPT !.val = Chars(SubSeq(w.val, 1, IndexByte(w.val, 0)))]

(* readString after the data pointer was read. *)
readStringDeref(m) ==
  IF m.err # NoErr THEN [m EXCEPT !.val = << >>]
  ELSE readStringCut(readWindow(m, m.val))

readString(s, addr) == readStringDeref(readMemory(s, addr))

(* The types of the debug info.  ByteOffset counts words.                  *)
TypeOf(typ) ==
  CASE typ = "int" ->
         [kind |-> "int", Type |-> "", StructName |-> "", Field |-> << >>]
    [] typ = "main.Int" ->
         [kind |-> "typedef", Type |-> "int", StructName |-> "", Field |-> << >>]
    [] typ = "*int" ->
         [kind |-> "ptr", Type |-> "int", StructName |-> "", Field |-> << >>]
    [] typ = "string" ->
         [kind |-> "struct", Type |-> "", StructName |-> "string", Field |-> << >>]
    [] typ = "main.FooBar" ->
         [kind |-> "struct", Type |-> "", StructName |-> "main.FooBar",
          Field |-> << [Name |-> "Baz", ByteOffset |-> 0, Type |-> "int"],
                       [Name |-> "Bur", ByteOffset |-> 1, Type |-> "string"] >>]
    [] typ = "main.Node" ->
         [kind |-> "struct", Type |-> "", StructName |-> "main.Node",
          Field |-> << [Name |-> "next", ByteOffset |-> 0, Type |-> "*main.Node"] >>]
    [] typ = "*main.Node" ->
         [kind |-> "ptr", Type |-> "main.Node", StructName |-> "", Field |-> << >>]
    [] OTHER ->
         [kind |-> "other", Type |-> "", StructName |-> "", Field |-> << >>]

(* A kernel call of this command is still going to fail. *)
FaultAhead(s) == s.env.kind \in {"kernel", "ECHILD"} /\ s.env.at > s.nsys

(* A nested call with the arguments of a call it is nested in, and with    *)
(* no failure ahead, repeats that call's steps: the recursion does not end *)
(* and the goroutine's stack overflows.                                    *)
StackOverflow(s) == [Panic(s) EXCEPT !.overflow = TRUE, !.val = << >>]

(* The location program of a recursive call: nil. *)
NilProgram == << >>

(* What op.ExecuteStackProgram makes of a program without instructions.    *)
NilOutcomes == {"error", "panic", "value"}

(* offset, err = op.ExecuteStackProgram(cfaOffset, instructions) *)
ExecuteProgram(r, cfaOffset, instructions) ==
  IF instructions # NilProgram
  THEN [r EXCEPT !.nexec = @ + 1,
                 !.val = ExecuteStackProgram(cfaOffset, instructions[1])]
  ELSE IF r.nilprog = "error"
  THEN [r EXCEPT !.nexec = @ + 1, !.err = "stackprog", !.val = 0]
  ELSE IF r.nilprog = "panic"
  THEN [Panic(r) EXCEPT !.nexec = @ + 1, !.val = 0]
  ELSE [r EXCEPT !.nexec = @ + 1, !.val = 0]

RECURSIVE extractValueAt(_, _, _, _, _)
RECURSIVE extractFields(_, _, _, _, _, _)

(* case *dwarf.PtrType, after the 8 bytes at the address were read. *)
extractPointee(v) ==
  IF v.err # NoErr THEN [v EXCEPT !.val = << >>]
  ELSE [v EXCEPT !.val = <<"*">> \o v.val]

extractPtr(m, t, calls) ==
  IF m.err # NoErr THEN [m EXCEPT !.val = << >>]
  ELSE extractPointee(extractValueAt(m, NilProgram, m.val, t.Type, calls))

(* The loop over t.Field, after field i was evaluated to v. *)
extractField(v, offset, t, i, fields, calls) ==
  IF v.err # NoErr THEN [v EXCEPT !.val = << >>]
  ELSE extractFields(v, offset, t, i + 1,
                     fields \o (IF fields = << >> THEN << >> ELSE <<", ">>)
                            \o <<t.Field[i].Name, ": ">> \o v.val, calls)

extractFields(r, offset, t, i, fields, calls) ==
  IF i > Len(t.Field)
  THEN [r EXCEPT !.err = NoErr, !.val = <<t.StructName, " {">> \o fields \o <<"}">>]
  ELSE extractField(extractValueAt(r, NilProgram, t.Field[i].ByteOffset + offset,
                                   t.Field[i].Type, calls),
                    offset, t, i, fields, calls)

(* The switch on the type, a typedef replaced by its underlying type. *)
extractTyped(r, offset, t, calls) ==
  CASE t.kind = "ptr" -> extractPtr(readMemory(r, offset), t, calls)
    [] t.kind = "struct" ->
         IF t.StructName = "string" THEN readString(r, offset)
         ELSE extractFields(r, offset, t, 1, << >>, calls)
    [] t.kind = "int" -> readInt(r, offset)
    [] OTHER -> [r EXCEPT !.err = "notype", !.val = << >>]

Underlying(typ) ==
  IF TypeOf(typ).kind = "typedef" THEN TypeOf(TypeOf(typ).Type) ELSE TypeOf(typ)

(* extractValue after the location program ran: offset = rsp + offset.     *)
(* strayed records a recursive call that reads elsewhere than at the       *)
(* address it was given.                                                   *)
extractLocated(e, instructions, typ, calls) ==
  IF e.err # NoErr THEN [e EXCEPT !.val = << >>]
  ELSE extractTyped([e EXCEPT !.strayed = @ \/ instructions = NilProgram],
                    e.sp + e.val, Underlying(typ), calls)

(* extractValue after Registers. *)
extractFrame(r, instructions, off, typ, calls) ==
  IF r.err # NoErr THEN [r EXCEPT !.val = << >>]
  ELSE IF FDEForPC(r.pc) = << >> THEN [r EXCEPT !.err = "nofde", !.val = << >>]
  ELSE IF off = 0
  THEN extractLocated(ExecuteProgram(r, CFAOffset(FDEForPC(r.pc)[1], r.pc), instructions),
                      instructions, typ, calls)
  ELSE extractTyped(r, off, Underlying(typ), calls)

(* calls: the arguments of the calls this one is nested in. *)
extractValueAt(s, instructions, off, typ, calls) ==
  IF <<instructions, off, typ>> \in calls /\ ~FaultAhead(s) THEN StackOverflow(s)
  ELSE extractFrame(Registers(s), instructions, off, typ,
                    calls \cup {<<instructions, off, typ>>})

extractValue(s, instructions, off, typ) == extractValueAt(s, instructions, off, typ, {})

(* One pass of EvalSymbol's loop over entry i: go on to the next entry     *)
(* (ctl "next") or return (ctl "return") a Variable or an error.           *)
EvalEntryAnyTag(s, name, i) ==
  LET entry == s.dwarf.entries[i] IN
  IF entry.name # name \/ entry.type = << >>
  THEN [s EXCEPT !.ctl = "next"]
  ELSE IF DataType(entry.type[1]).err # NoErr
  THEN [s EXCEPT !.ctl = "return", !.err = DataType(entry.type[1]).err, !.ret = << >>]
  ELSE IF entry.loc = << >>
  THEN [s EXCEPT !.ctl = "next"]
  ELSE LET v == extractValue(s, entry.loc, 0, DataType(entry.type[1]).typ) IN
       IF v.err # NoErr THEN [v EXCEPT !.ctl = "return", !.ret = << >>]
       ELSE [v EXCEPT !.ctl = "return", !.idx = i,
                      !.ret = << [Name |-> entry.name,
                                  Type |-> DataType(entry.type[1]).typ,
                                  Value |-> v.val] >>]

EvalEntry(s, name, i) ==
  LET entry == s.dwarf.entries[i] IN
  IF entry.tag \notin {"Variable", "FormalParameter"}
  THEN [s EXCEPT !.ctl = "next"]
  ELSE IF entry.name # name \/ entry.type = << >>
  THEN [s EXCEPT !.ctl = "next"]
  ELSE IF DataType(entry.type[1]).err # NoErr
  THEN [s EXCEPT !.ctl = "return", !.err = DataType(entry.type[1]).err, !.ret = << >>]
  ELSE IF entry.loc = << >>
  THEN [s EXCEPT !.ctl = "next"]
  ELSE LET v == extractValue(s, entry.loc, 0, DataType(entry.type[1]).typ) IN
       IF v.err # NoErr THEN [v EXCEPT !.ctl = "return", !.ret = << >>]
       ELSE [v EXCEPT !.ctl = "return", !.idx = i,
                      !.ret = << [Name |-> entry.name,
                                  Type |-> DataType(entry.type[1]).typ,
                                  Value |-> v.val] >>]

RECURSIVE EvalScan(_, _, _)
EvalFrom(r, name, i) ==
  IF r.ctl = "return" THEN r ELSE EvalScan(r, name, i + 1)

EvalScan(s, name, i) ==
  IF i > Len(s.dwarf.entries)
  THEN [s EXCEPT !.err = "notfound", !.ret = << >>]
  ELSE EvalFrom(EvalEntry(s, name, i), name, i)

EvalSymbol(s, name) ==
  IF s.dwarf.err # NoErr THEN [s EXCEPT !.err = s.dwarf.err, !.ret = << >>]
  ELSE EvalScan(s, name, 1)


(* ---------------- commands ---------------- *)
(* What the environment does during one command: nothing, or the at-th     *)
(* kernel call of the command fails (wait4 with the given errno), or a     *)
(* signal stops the resumed tracee after at instructions, or bytes that    *)
(* are not an instruction decode to something harmless.                    *)
Quiet == [kind |-> "none", at |-> 0]

KernelFaults(k) == [kind : {"kernel"}, at : 1..k]

WaitFaults == [kind : {"ECHILD"}, at : 1..MaxFault]

Signals == [kind : {"signal"}, at : 1..MaxSigAt]

Skip == [kind |-> "skip", at |-> 0]

EmptyTable == [a \in {} |-> 0]

St(env) ==
  [mem |-> mem, pc |-> Rip, sp |-> Rsp, stk |-> stk, n |-> n, depth |-> depth,
   run |-> run, hit |-> hit, BreakPoints |-> BreakPoints,
   skipped |-> FALSE, echild |-> FALSE, waitErr |-> FALSE, collide |-> FALSE,
   ProcessState |-> ProcessState, dbg |-> dbg, dwarf |-> DWARF, idx |-> 0,
   ev |-> ev, env |-> env, signalled |-> FALSE,
   nsys |-> 0, nread |-> 0, nwrite |-> 0, err |-> NoErr, val |-> 0,
   ret |-> << >>, einfo |-> << >>, temps |-> {}, stepErr |-> NoErr, line0 |-> 0,
   ctl |-> "next", retErr |-> NoErr, jumped |-> FALSE,
   heap |-> heap, nilprog |-> "panic", nexec |-> 0, strayed |-> FALSE,
   overflow |-> FALSE, window |-> << >>,
   loop |-> FALSE]

Commit(r, op, arg) ==
  /\ mem' = r.mem
  /\ Rip' = r.pc
  /\ Rsp' = r.sp
  /\ stk' = r.stk
  /\ heap' = heap
  /\ n' = r.n
  /\ depth' = r.depth
  /\ run' = r.run
  /\ hit' = r.hit
  /\ ev' = r.ev
  /\ BreakPoints' = r.BreakPoints
  /\ ProcessState' = r.ProcessState
  /\ dbg' = r.dbg
  /\ DWARF' = DWARF
  /\ load' = load
  /\ UNCHANGED threadVars
  /\ last' = [op |-> op, arg |-> arg, err |-> r.err,
              ret |-> IF op \in {"Break", "Clear", "EvalSymbol"} THEN r.ret ELSE << >>,
              einfo |-> IF op \in {"Break", "Clear"} THEN r.einfo ELSE << >>,
              read |-> r.nread > 0, wrote |-> r.nwrite > 0,
              pre |-> IF op \in {"Break", "Clear"} /\ arg \in CodeAddrs THEN mem[arg] ELSE 0,
              keys |-> IF op = "Break" THEN DOMAIN BreakPoints ELSE {},
              quiet |-> r.env = Quiet,
              stepErr |-> IF op = "Step" THEN r.stepErr ELSE NoErr,
              skipped |-> r.skipped, echild |-> r.echild, waitErr |-> r.waitErr,
              collide |-> r.collide, idx |-> r.idx, retErr |-> r.retErr,
              jumped |-> r.jumped, nexec |-> r.nexec, strayed |-> r.strayed,
              overflow |-> r.overflow, window |-> r.window]

(* Addresses a user asks a breakpoint at: 0 (no function), 3 (a byte of   *)
(* the program that is 0xCC), and the starts of three instructions: the    *)
(* entry of main, the return address of its call, and the ret of f.        *)
BreakAddrs == {0, 1, 3, 4, 10}

AttachedTracee ==
  /\ mem = OrigByte
  /\ Rip = 1
  /\ Rsp = StackSize
  /\ n = MaxN
  /\ depth = 0
  /\ run = "stopped"
  /\ hit = 0
  /\ ev = "sig"
  /\ BreakPoints = EmptyTable
  /\ ProcessState = "sig"
  /\ dbg = "ready"
  /\ last = [op |-> "attach", arg |-> 0, err |-> NoErr, ret |-> << >>,
             einfo |-> << >>, read |-> FALSE, wrote |-> FALSE, pre |-> 0, keys |-> {},
             quiet |-> TRUE, stepErr |-> NoErr, skipped |-> FALSE, echild |-> FALSE,
             waitErr |-> FALSE, collide |-> FALSE, idx |-> 0, retErr |-> NoErr,
             jumped |-> FALSE, nexec |-> 0, strayed |-> FALSE, overflow |-> FALSE,
             window |-> << >>]

(* A tracee whose stack and data hold nothing but zeros. *)
Attached ==
  /\ AttachedTracee
  /\ stk = [i \in 1..StackSize |-> 0]
  /\ heap = [i \in 1..WindowLen |-> 0]

NoDebugInfo == DWARF = [err |-> NoErr, entries |-> << >>]

(* The single-threaded process has no thread contexts. *)
NoThreads ==
  /\ kern = [task |-> << >>, wg |-> 0, text |-> << >>]
  /\ Threads = << >>
  /\ CurrentThread = 0
  /\ ctor = [phase |-> "none", tids |-> << >>, i |-> 0]
  /\ cmd = [op |-> "none", pos |-> "idle", err |-> NoErr, arg |-> 0, rearm |-> << >>,
            ahead |-> FALSE]

(* A process whose information is already loaded: no loader goroutine is   *)
(* left.                                                                   *)
Loaded ==
  load = [main |-> "none", err |-> NoErr, wg |-> 0, frame |-> "done", sym |-> "done",
          FrameEntries |-> TRUE, GoSymTable |-> TRUE, exited |-> FALSE,
          file |-> [exe |-> TRUE, frame |-> "ok", symtab |-> "ok", pclntab |-> "ok",
                    table |-> TRUE],
          overlap |-> FALSE, observed |-> << >>]

Init == Attached /\ NoDebugInfo /\ NoThreads /\ Loaded

BreakCmd ==
  /\ dbg = "ready"
  /\ \E addr \in BreakAddrs, env \in {Quiet} \cup KernelFaults(2) :
       LET r == Break(St(env), addr) IN
       /\ Cardinality(DOMAIN r.BreakPoints) <= MaxBP
       /\ Commit(r, "Break", addr)

ClearCmd ==
  /\ dbg = "ready"
  /\ \E addr \in BreakAddrs, env \in {Quiet} \cup KernelFaults(1) :
       Commit(Clear(St(env), addr), "Clear", addr)

StepCmd ==
  /\ dbg = "ready"
  /\ \E env \in {Quiet, Skip} \cup KernelFaults(MaxFault) \cup WaitFaults :
       Commit(Step(St(env)), "Step", 0)

ContinueCmd ==
  /\ dbg = "ready"
  /\ \E env \in {Quiet, Skip} \cup KernelFaults(MaxFault) \cup WaitFaults \cup Signals :
       Commit(Continue(St(env)), "Continue", 0)

NextCmd ==
  /\ dbg = "ready"
  /\ \E env \in {Quiet, Skip} \cup KernelFaults(MaxNextFault) \cup WaitFaults \cup Signals :
       Commit(DbpNext(St(env)), "Next", 0)

Next == BreakCmd \/ ClearCmd \/ StepCmd \/ ContinueCmd \/ NextCmd

Spec == Init /\ [][Next]_vars

(* ---------------- evaluation of symbols ---------------- *)
MaxEntries == 2

Entry(tag, name, type, loc) == [tag |-> tag, name |-> name, type |-> type, loc |-> loc]

(* The entries a debug-info section is made of here: variables and formal  *)
(* parameters named a or b, a subprogram named a, entries without a type   *)
(* reference or without a location, one whose type does not decode and one *)
(* of a type the evaluator does not render.                                *)
EntryKinds ==
  { Entry("Variable", "a", <<"int">>, << -1 >>),
    Entry("FormalParameter", "a", <<"int">>, << 0 >>),
    Entry("Subprogram", "a", <<"int">>, << -1 >>),
    Entry("Variable", "b", <<"int">>, << -1 >>),
    Entry("Variable", "a", << >>, << -1 >>),
    Entry("Variable", "a", <<"int">>, << >>),
    Entry("Variable", "a", <<"malformed">>, << >>),
    Entry("Variable", "a", <<"bool">>, << -1 >>) }

EntryLists == UNION { [1..k -> EntryKinds] : k \in 0..MaxEntries }

Names == {"a"}

EvalInit ==
  /\ Attached
  /\ NoThreads
  /\ Loaded
  /\ DWARF \in {[err |-> "nodwarf", entries |-> << >>]} \cup
               [err : {NoErr}, entries : EntryLists]

EvalSymbolCmd ==
  /\ dbg = "ready"
  /\ \E name \in Names, env \in {Quiet} \cup KernelFaults(2) :
       Commit(EvalSymbol(St(env), name), "EvalSymbol", name)

(* Between evaluations the user steps the tracee and sets breakpoints;    *)
(* here with every kernel call succeeding.                                 *)
QuietStepCmd ==
  /\ dbg = "ready"
  /\ Commit(Step(St(Quiet)), "Step", 0)

QuietBreakCmd ==
  /\ dbg = "ready"
  /\ \E addr \in BreakAddrs :
       LET r == Break(St(Quiet), addr) IN
       /\ Cardinality(DOMAIN r.BreakPoints) <= MaxBP
       /\ Commit(r, "Break", addr)

EvalNext == EvalSymbolCmd \/ QuietStepCmd \/ QuietBreakCmd

EvalSpec == EvalInit /\ [][EvalNext]_vars

(* ---------------- values of every type family ---------------- *)
(* The 16 bytes at HeapBase: "ab" and NULs, a NUL first, fifteen letters   *)
(* and a NUL, sixteen letters.                                             *)
Windows ==
  { [i \in 1..WindowLen |-> IF i = 1 THEN 97 ELSE IF i = 2 THEN 98 ELSE 0],
    [i \in 1..WindowLen |-> IF i = 1 THEN 0 ELSE 97],
    [i \in 1..WindowLen |-> IF i = WindowLen THEN 0 ELSE 97],
    [i \in 1..WindowLen |-> 97] }

(* A program's variable a: its type, where it lives (one or two words      *)
(* below the canonical frame address) and the data the program has there.  *)
(* The stack of the attached tracee holds zeros (nil pointers), or in      *)
(* every word the address of that word, or in every word the address of    *)
(* the next one, or plain numbers, or in every word the address of the     *)
(* bytes at HeapBase, or a number below the top word and that address in   *)
(* it.                                                                     *)
Scenes ==
  LET Zeros == [i \in 1..StackSize |-> 0]
      Selves == [i \in 1..StackSize |-> i]
      Chain == [i \in 1..StackSize |-> IF i < StackSize THEN i + 1 ELSE 0]
      Numbers == [i \in 1..StackSize |-> 40 + i]
      Texts == [i \in 1..StackSize |-> HeapBase]
      NumberAndText == [i \in 1..StackSize |-> IF i < StackSize THEN 8 ELSE HeapBase]
  IN [type : {"int", "main.Int", "*int", "main.Node", "*main.Node", "bool"},
      loc : {-1, -2}, stk : {Zeros, Selves, Chain, Numbers},
      heap : {[i \in 1..WindowLen |-> 0]}]
     \cup
     [type : {"string", "main.FooBar"},
      loc : {-1, -2}, stk : {Zeros, Chain, Texts, NumberAndText},
      heap : Windows]

ValueInit ==
  /\ AttachedTracee
  /\ NoThreads
  /\ Loaded
  /\ \E sc \in Scenes :
       /\ stk = sc.stk
       /\ heap = sc.heap
       /\ DWARF = [err |-> NoErr,
                   entries |-> << Entry("Variable", "a", << sc.type >>, << sc.loc >>) >>]

ValueEvalCmd ==
  /\ dbg = "ready"
  /\ \E name \in Names, env \in {Quiet} \cup KernelFaults(3), np \in NilOutcomes :
       Commit(EvalSymbol([St(env) EXCEPT !.nilprog = np], name), "EvalSymbol", name)

ValueNext == ValueEvalCmd \/ QuietStepCmd

ValueSpec == ValueInit /\ [][ValueNext]_vars

(* ---------------- a target with two kernel threads ---------------- *)
(* main:   1 spawn    line 18   go anotherthread(&wg)                      *)
(*         2 wgwait   line 19   wg.Wait()                                  *)
(*         3 exit     line 20                                              *)
(* worker: 4 print    line 10   fmt.Println("setbreakpoint")               *)
(*         5 wgdone   line 11   wg.Done()                                  *)
(*         6 texit    line 12   the thread ends                            *)
Pid == 1

Worker == Pid + 1

Tids == {Pid, Worker}

TProg == <<"spawn", "wgwait", "exit", "print", "wgdone", "texit">>

TOrig == <<232, 72, 195, 232, 240, 195>>

TLine == <<18, 19, 20, 10, 11, 12>>

WorkerEntry == CHOOSE a \in DOMAIN TProg : TProg[a] = "print"

NoTask ==
  [st |-> "none", traced |-> FALSE, stopreq |-> FALSE, step |-> FALSE, pc |-> 0,
   report |-> << >>]

Alive(k, t) == k.task[t].st \in {"running", "stopped"}

(* The whole thread group ends (exit, or a signal nobody traces): every    *)
(* traced thread has that to report.                                       *)
GroupExit(k, status) ==
  [k EXCEPT !.task = [t \in Tids |->
     IF Alive(k, t)
     THEN [k.task[t] EXCEPT !.st = "exited", !.step = FALSE, !.stopreq = FALSE,
                            !.report = IF k.task[t].traced THEN <<status>> ELSE << >>]
     ELSE k.task[t]]]

(* A running thread can take its next instruction unless it sits in        *)
(* wg.Wait with the group not done.                                        *)
CanRun(k, t) ==
  /\ k.task[t].st = "running"
  /\ ~(k.text[k.task[t].pc] # INT3 /\ TProg[k.task[t].pc] = "wgwait" /\ k.wg # 0)

(* A single-stepped thread stops after the instruction. *)
AfterInstr(k, t) ==
  IF k.task[t].st = "running" /\ k.task[t].step
  THEN [k EXCEPT !.task[t].st = "stopped", !.task[t].step = FALSE,
                 !.task[t].report = <<"trap">>]
  ELSE k

ThreadInstr(k, t) ==
  LET a == k.task[t].pc IN
  CASE TProg[a] = "spawn" ->
         [k EXCEPT !.task[t].pc = a + 1,
                   !.task[Worker] = [NoTask EXCEPT !.st = "running", !.pc = WorkerEntry]]
    [] TProg[a] = "wgwait" -> [k EXCEPT !.task[t].pc = a + 1]
    [] TProg[a] = "exit" -> GroupExit(k, "exited")
    [] TProg[a] = "print" -> [k EXCEPT !.task[t].pc = a + 1]
    [] TProg[a] = "wgdone" -> [k EXCEPT !.task[t].pc = a + 1, !.wg = 0]
    [] TProg[a] = "texit" ->
         [k EXCEPT !.task[t].st = "exited", !.task[t].step = FALSE,
                   !.task[t].stopreq = FALSE,
                   !.task[t].report = IF k.task[t].traced THEN <<"exited">> ELSE << >>]

(* One instruction of thread t.  A trap byte stops a traced thread one     *)
(* past it; in a thread nobody traces the trap signal ends the group.      *)
ThreadExec(k, t) ==
  IF k.text[k.task[t].pc] = INT3
  THEN IF k.task[t].traced
       THEN [k EXCEPT !.task[t].st = "stopped", !.task[t].step = FALSE,
                      !.task[t].pc = @ + 1, !.task[t].report = <<"trap">>]
       ELSE GroupExit(k, "signaled")
  ELSE AfterInstr(ThreadInstr(k, t), t)

TraceeRun ==
  /\ \E t \in Tids : CanRun(kern, t) /\ kern' = ThreadExec(kern, t)
  /\ UNCHANGED <<Threads, CurrentThread, ctor, cmd>>
  /\ UNCHANGED processVars

(* The stop that PtraceAttach asked for takes effect. *)
TraceeStop ==
  /\ \E t \in Tids :
       /\ kern.task[t].st = "running" /\ kern.task[t].stopreq
       /\ kern' = [kern EXCEPT !.task[t].st = "stopped", !.task[t].stopreq = FALSE,
                               !.task[t].report = <<"stopped">>]
  /\ UNCHANGED <<Threads, CurrentThread, ctor, cmd>>
  /\ UNCHANGED processVars

(* ---------------- NewDebugProcess over the threads ---------------- *)
RECURSIVE Orderings(_)
Orderings(S) ==
  IF S = {} THEN { << >> }
  ELSE UNION { { <<x>> \o r : r \in Orderings(S \ {x}) } : x \in S }

(* threadIds(pid): the ids under /proc/<pid>/task, in some order. *)
threadIds(k) == Orderings({t \in Tids : Alive(k, t)})

LoopHead(i, tids) == IF i > Len(tids) THEN "load" ELSE "attach"

NewDebugProcessEnumerate ==
  /\ ctor.phase = "new"
  /\ \E tids \in threadIds(kern) :
       ctor' = [phase |-> LoopHead(1, tids), tids |-> tids, i |-> 1]
  /\ UNCHANGED <<kern, Threads, CurrentThread, cmd>>
  /\ UNCHANGED processVars

NewDebugProcessAttach ==
  /\ ctor.phase = "attach"
  /\ LET tid == ctor.tids[ctor.i] IN
     IF Alive(kern, tid)
     THEN /\ kern' = [kern EXCEPT !.task[tid].traced = TRUE, !.task[tid].stopreq = TRUE]
          /\ ctor' = [ctor EXCEPT !.phase = "wait"]
     ELSE /\ ctor' = [ctor EXCEPT !.phase = "failed"]
          /\ UNCHANGED kern
  /\ UNCHANGED <<Threads, CurrentThread, cmd>>
  /\ UNCHANGED processVars

(* wait(tid) and the rest of the loop body: the thread context is built    *)
(* from whatever status wait returned; wait4 may also fail for a thread    *)
(* that is not the group leader.                                           *)
NewDebugProcessWait ==
  /\ ctor.phase = "wait"
  /\ LET tid == ctor.tids[ctor.i] IN
     \/ /\ kern.task[tid].report # << >>
        /\ kern' = [kern EXCEPT !.task[tid].report = << >>]
        /\ Threads' = Append(Threads, [Id |-> tid, Status |-> kern.task[tid].report[1],
                                       BreakPoints |-> EmptyTable])
        /\ CurrentThread' = IF tid = Pid THEN Len(Threads) + 1 ELSE CurrentThread
        /\ ctor' = [ctor EXCEPT !.i = @ + 1, !.phase = LoopHead(ctor.i + 1, ctor.tids)]
     \/ /\ tid # Pid
        /\ ctor' = [ctor EXCEPT !.phase = "failed"]
        /\ UNCHANGED <<kern, Threads, CurrentThread>>
  /\ UNCHANGED cmd
  /\ UNCHANGED processVars

(* LoadInformation: /proc/<pid>/exe opens while the leader is alive. *)
NewDebugProcessLoad ==
  /\ ctor.phase = "load"
  /\ ctor' = [ctor EXCEPT !.phase = IF Alive(kern, Pid) THEN "done" ELSE "failed"]
  /\ UNCHANGED <<kern, Threads, CurrentThread, cmd>>
  /\ UNCHANGED processVars

Status == Threads[CurrentThread].Status

(* ---------------- commands on the current thread ---------------- *)
Controllable == ctor.phase = "done" /\ CurrentThread # 0 /\ cmd.pos = "idle"

ThreadStopped(k, t) == k.task[t].traced /\ k.task[t].st = "stopped"

Returned(op, arg, err) ==
  [op |-> op, pos |-> "idle", err |-> err, arg |-> arg, rearm |-> << >>,
   ahead |-> cmd.ahead]

ThreadBreakAddrs == {a \in DOMAIN TProg : TProg[a] \in {"wgwait", "print"}}

(* Break through the process: the current thread's Break. *)
ThreadBreakCmd ==
  /\ Controllable
  /\ \E addr \in ThreadBreakAddrs :
       LET tid == Threads[CurrentThread].Id IN
       IF ThreadStopped(kern, tid) /\ addr \notin DOMAIN Threads[CurrentThread].BreakPoints
       THEN /\ kern' = [kern EXCEPT !.text[addr] = INT3]
            /\ Threads' = [Threads EXCEPT ![CurrentThread].BreakPoints =
                             (addr :> kern.text[addr]) @@ @]
            /\ cmd' = [Returned("Break", addr, NoErr) EXCEPT !.ahead =
                         addr = WorkerEntry /\
                         (kern.task[Worker].st = "none" \/
                          (Alive(kern, Worker) /\ kern.task[Worker].pc = WorkerEntry))]
       ELSE /\ cmd' = Returned("Break", addr, "error")
            /\ UNCHANGED <<kern, Threads>>
  /\ UNCHANGED <<CurrentThread, ctor>>
  /\ UNCHANGED processVars

(* Continue through the process: the current thread's Continue.  Its Step  *)
(* takes a breakpoint at pc - 1 out and single-steps the thread.           *)
ContinueBegin ==
  /\ Controllable
  /\ LET tid == Threads[CurrentThread].Id
         pc == kern.task[tid].pc
         parked == (pc - 1) \in DOMAIN Threads[CurrentThread].BreakPoints
     IN IF ThreadStopped(kern, tid)
        THEN /\ kern' = [kern EXCEPT
                   !.text = IF parked
                            THEN [@ EXCEPT ![pc - 1] = Threads[CurrentThread].BreakPoints[pc - 1]]
                            ELSE @,
                   !.task[tid].pc = IF parked THEN pc - 1 ELSE pc,
                   !.task[tid].st = "running",
                   !.task[tid].step = TRUE]
             /\ Threads' = IF parked
                           THEN [Threads EXCEPT ![CurrentThread].BreakPoints =
                                   [a \in (DOMAIN @) \ {pc - 1} |-> @[a]]]
                           ELSE Threads
             /\ cmd' = [op |-> "Continue", pos |-> "stepwait", err |-> NoErr, arg |-> 0,
                        rearm |-> IF parked THEN <<pc - 1>> ELSE << >>,
                        ahead |-> cmd.ahead]
        ELSE /\ cmd' = Returned("Continue", 0, "error")
             /\ UNCHANGED <<kern, Threads>>
  /\ UNCHANGED <<CurrentThread, ctor>>
  /\ UNCHANGED processVars

(* The step's wait returns: the breakpoint goes back in, then the thread   *)
(* alone is resumed.                                                       *)
ContinueStepped ==
  /\ cmd.pos = "stepwait"
  /\ LET tid == Threads[CurrentThread].Id
         status == kern.task[tid].report
     IN /\ status # << >>
        /\ IF kern.task[tid].st = "stopped"
           THEN /\ kern' = [kern EXCEPT
                      !.task[tid].report = << >>,
                      !.task[tid].st = "running",
                      !.text = IF cmd.rearm # << >>
                               THEN [@ EXCEPT ![cmd.rearm[1]] = INT3] ELSE @]
                /\ Threads' = [Threads EXCEPT
                      ![CurrentThread].Status = status[1],
                      ![CurrentThread].BreakPoints =
                         IF cmd.rearm # << >>
                         THEN (cmd.rearm[1] :> kern.text[cmd.rearm[1]]) @@ @ ELSE @]
                /\ cmd' = [cmd EXCEPT !.pos = "contwait", !.rearm = << >>]
           ELSE /\ kern' = [kern EXCEPT !.task[tid].report = << >>]
                /\ Threads' = [Threads EXCEPT ![CurrentThread].Status = status[1]]
                /\ cmd' = Returned("Continue", 0, "error")
  /\ UNCHANGED <<CurrentThread, ctor>>
  /\ UNCHANGED processVars

(* The wait after the continue request returns. *)
ContinueStopped ==
  /\ cmd.pos = "contwait"
  /\ LET tid == Threads[CurrentThread].Id
         status == kern.task[tid].report
     IN /\ status # << >>
        /\ kern' = [kern EXCEPT !.task[tid].report = << >>]
        /\ Threads' = [Threads EXCEPT ![CurrentThread].Status = status[1]]
        /\ cmd' = Returned("Continue", 0, NoErr)
  /\ UNCHANGED <<CurrentThread, ctor>>
  /\ UNCHANGED processVars

ThreadInit ==
  /\ Attached
  /\ NoDebugInfo
  /\ Loaded
  /\ kern = [task |-> [t \in Tids |-> IF t = Pid
                                      THEN [NoTask EXCEPT !.st = "running", !.pc = 1]
                                      ELSE NoTask],
             wg |-> 1, text |-> TOrig]
  /\ Threads = << >>
  /\ CurrentThread = 0
  /\ ctor = [phase |-> "new", tids |-> << >>, i |-> 0]
  /\ cmd = [op |-> "none", pos |-> "idle", err |-> NoErr, arg |-> 0, rearm |-> << >>,
            ahead |-> FALSE]

ThreadNext ==
  \/ TraceeRun \/ TraceeStop
  \/ NewDebugProcessEnumerate \/ NewDebugProcessAttach
  \/ NewDebugProcessWait \/ NewDebugProcessLoad
  \/ ThreadBreakCmd \/ ContinueBegin \/ ContinueStepped \/ ContinueStopped

ThreadSpec == ThreadInit /\ [][ThreadNext]_vars

(* ---------------- LoadInformation ---------------- *)
(* What the executable offers each parser: a section is "ok", "bad" (its   *)
(* Data fails) or "absent" (Section returns nil).                          *)
SectionStates == {"ok", "bad", "absent"}

Files == [exe : BOOLEAN, frame : SectionStates, symtab : SectionStates,
          pclntab : SectionStates, table : BOOLEAN]

InFlight(pos) == pos \notin {"unborn", "done"}

(* Ghost: both goroutines were between their first and last step at once.  *)
Overlap(l) == [l EXCEPT !.overlap = @ \/ (InFlight(l.frame) /\ InFlight(l.sym))]

(* The goroutine of parseDebugFrame that calls Done before it has parsed.  *)
parseDebugFrameDoneFirst(l) ==
  CASE l.frame = "data" ->
         IF l.file.frame = "ok" THEN [l EXCEPT !.frame = "parse", !.wg = @ - 1]
         ELSE [l EXCEPT !.exited = TRUE]
    [] l.frame = "parse" -> [l EXCEPT !.FrameEntries = TRUE, !.frame = "defer"]
    [] l.frame = "defer" -> [l EXCEPT !.frame = "done"]
    [] OTHER -> l

(* One step of the goroutine running parseDebugFrame: read the section     *)
(* (a failing read prints and exits the debugger, a nil section panics),   *)
(* parse and assign FrameEntries, then the deferred wg.Done.               *)
parseDebugFrame(l) ==
  CASE l.frame = "data" ->
         IF l.file.frame = "ok" THEN [l EXCEPT !.frame = "parse"]
         ELSE [l EXCEPT !.exited = TRUE]
    [] l.frame = "parse" -> [l EXCEPT !.FrameEntries = TRUE, !.frame = "defer"]
    [] l.frame = "defer" -> [l EXCEPT !.wg = @ - 1, !.frame = "done"]
    [] OTHER -> l

(* One step of the goroutine running obtainGoSymbols: the two optional     *)
(* sections (absent ones are skipped, a failing read exits), the table     *)
(* construction (a failure exits), the assignment of GoSymTable, and the   *)
(* deferred wg.Done.                                                       *)
obtainGoSymbols(l) ==
  CASE l.sym = "symtab" ->
         IF l.file.symtab = "bad" THEN [l EXCEPT !.exited = TRUE]
         ELSE [l EXCEPT !.sym = "pclntab"]
    [] l.sym = "pclntab" ->
         IF l.file.pclntab = "bad" THEN [l EXCEPT !.exited = TRUE]
         ELSE [l EXCEPT !.sym = "table"]
    [] l.sym = "table" ->
         IF l.file.table THEN [l EXCEPT !.sym = "assign"]
         ELSE [l EXCEPT !.exited = TRUE]
    [] l.sym = "assign" -> [l EXCEPT !.GoSymTable = TRUE, !.sym = "defer"]
    [] l.sym = "defer" -> [l EXCEPT !.wg = @ - 1, !.sym = "done"]
    [] OTHER -> l

LoadFrame == UNCHANGED <<tracedVars, threadVars>>

(* LoadInformation: findExecutable, returning its error. *)
LoadFindExecutable ==
  /\ load.main = "start" /\ ~load.exited
  /\ load' = IF load.file.exe THEN [load EXCEPT !.main = "add"]
             ELSE [load EXCEPT !.main = "returned", !.err = "noexe"]
  /\ LoadFrame

(* wg.Add(2) *)
LoadAdd ==
  /\ load.main = "add" /\ ~load.exited
  /\ load' = [load EXCEPT !.main = "goframe", !.wg = @ + 2]
  /\ LoadFrame

(* go dbp.parseDebugFrame(&wg) *)
LoadGoParseDebugFrame ==
  /\ load.main = "goframe" /\ ~load.exited
  /\ load' = Overlap([load EXCEPT !.main = "gosym", !.frame = "data"])
  /\ LoadFrame

(* go dbp.obtainGoSymbols(&wg) *)
LoadGoObtainGoSymbols ==
  /\ load.main = "gosym" /\ ~load.exited
  /\ load' = Overlap([load EXCEPT !.main = "wait", !.sym = "symtab"])
  /\ LoadFrame

(* wg.Wait() and return nil *)
LoadWait ==
  /\ load.main = "wait" /\ ~load.exited
  /\ load.wg = 0
  /\ load' = [load EXCEPT !.main = "returned", !.err = NoErr]
  /\ LoadFrame

ParseDebugFrameStep ==
  /\ InFlight(load.frame) /\ ~load.exited
  /\ load' = Overlap(parseDebugFrame(load))
  /\ LoadFrame

ObtainGoSymbolsStep ==
  /\ InFlight(load.sym) /\ ~load.exited
  /\ load' = Overlap(obtainGoSymbols(load))
  /\ LoadFrame

(* NewDebugProcess hands out the process only when LoadInformation has     *)
(* returned nil; the first command then looks at what was loaded.          *)
LoadedCommand ==
  /\ load.main = "returned" /\ load.err = NoErr /\ ~load.exited
  /\ load.observed = << >>
  /\ load' = [load EXCEPT !.observed = << [FrameEntries |-> load.FrameEntries,
                                           GoSymTable |-> load.GoSymTable] >>]
  /\ LoadFrame

LoadInit ==
  /\ Attached
  /\ NoDebugInfo
  /\ NoThreads
  /\ load \in [main : {"start"}, err : {NoErr}, wg : {0}, frame : {"unborn"},
               sym : {"unborn"}, FrameEntries : {FALSE}, GoSymTable : {FALSE},
               exited : {FALSE}, file : Files, overlap : {FALSE}, observed : {<< >>}]

LoadNext ==
  \/ LoadFindExecutable \/ LoadAdd \/ LoadGoParseDebugFrame \/ LoadGoObtainGoSymbols
  \/ LoadWait \/ ParseDebugFrameStep \/ ObtainGoSymbolsStep \/ LoadedCommand

LoadSpec == LoadInit /\ [][LoadNext]_vars


TypeOK ==
  /\ run \in {"stopped", "running", "exited"}
  /\ hit \in {0} \cup CodeAddrs
  /\ dbg \in {"ready", "panicked", "hung"}
  /\ Rsp \in 1..(StackSize + 1)

(* ---------------- properties ---------------- *)
Installed(a) == a \in DOMAIN BreakPoints /\ mem[a] = INT3

Without(tbl, a) == [x \in (DOMAIN tbl) \ {a} |-> tbl[x]]

(* C1: between commands, every breakpoint recorded in the table has the    *)
(* trap byte 0xCC at its address in tracee memory.                         *)
C1_TableEntriesAreTraps == \A a \in DOMAIN BreakPoints : mem[a] = INT3

C1_Witness ==
  /\ last.op \in {"Step", "Continue", "Next"}
  /\ last.err = NoErr
  /\ DOMAIN BreakPoints # {}

(* C2: a successful Break(a) records the byte it found at a, which is not  *)
(* 0xCC; a successful Clear(a) writes the record's OriginalData back,      *)
(* drops exactly that record and returns it; and when the Clear directly   *)
(* follows the Break, memory and table are as they were before the Break.  *)
C2_BreakClearRoundTrip ==
  [][ /\ (last'.op = "Break" /\ last'.err = NoErr) =>
           /\ last'.ret = << BreakPoints'[last'.arg] >>
           /\ last'.ret[1].OriginalData = mem[last'.arg]
           /\ mem[last'.arg] # INT3
      /\ (last'.op = "Clear" /\ last'.err = NoErr) =>
           /\ last'.arg \in DOMAIN BreakPoints
           /\ mem' = [mem EXCEPT ![last'.arg] = BreakPoints[last'.arg].OriginalData]
           /\ mem'[last'.arg] # INT3
           /\ BreakPoints' = Without(BreakPoints, last'.arg)
           /\ last'.ret = << BreakPoints[last'.arg] >>
      /\ (/\ last.op = "Break" /\ last.err = NoErr
          /\ last'.op = "Clear" /\ last'.err = NoErr /\ last'.arg = last.arg) =>
           /\ mem'[last.arg] = last.pre
           /\ mem' = [mem EXCEPT ![last.arg] = last.pre]
           /\ DOMAIN BreakPoints' = last.keys
           /\ \A x \in last.keys : BreakPoints'[x] = BreakPoints[x]
           /\ last'.ret = last.ret
    ]_vars

C2_Witness ==
  /\ last.op = "Clear"
  /\ last.err = NoErr
  /\ last.ret # << >>
  /\ mem[last.arg] = last.ret[1].OriginalData
  /\ last.pre = INT3

(* C3 as stated: Break(a) with a breakpoint already installed at a fails   *)
(* with BreakpointExists carrying (file, line, a) and changes neither the  *)
(* table nor memory; no two records share an address.                      *)
C3_AsStated ==
  /\ [][ (last'.op = "Break" /\ last'.arg \in DOMAIN BreakPoints) =>
           /\ last'.err = "BreakpointExists"
           /\ last'.einfo = << PCToLine(last'.arg).file, PCToLine(last'.arg).line, last'.arg >>
           /\ BreakPoints' = BreakPoints
           /\ mem' = mem
       ]_vars
  /\ [](\A a \in DOMAIN BreakPoints : BreakPoints[a].Addr = a)

(* C3 amended: Break(a) with a breakpoint already installed at a fails and *)
(* changes neither the table, the record nor memory; the error is          *)
(* BreakpointExists carrying (file, line, a) exactly when the byte at a    *)
(* could be read, and the kernel's error otherwise; no two records share   *)
(* an address.                                                             *)
C3_DuplicateBreakFails ==
  /\ [][ (last'.op = "Break" /\ last'.arg \in DOMAIN BreakPoints) =>
           /\ last'.err \in {"BreakpointExists", "kernel"}
           /\ (last'.err = "BreakpointExists") <=> last'.read
           /\ (last'.err = "BreakpointExists") =>
                last'.einfo = << PCToLine(last'.arg).file, PCToLine(last'.arg).line, last'.arg >>
           /\ ~last'.wrote
           /\ last'.ret = << >>
           /\ BreakPoints' = BreakPoints
           /\ mem' = mem
       ]_vars
  /\ [](\A a \in DOMAIN BreakPoints : BreakPoints[a].Addr = a /\ BreakPoints[a].OriginalData # INT3)

C3_Witness ==
  /\ last.op = "Break"
  /\ last.err = "BreakpointExists"
  /\ last.arg \in DOMAIN BreakPoints

(* C4: Break at an address no function covers fails with InvalidAddress    *)
(* before tracee memory is read or written, and every failing Break leaves *)
(* the table and tracee memory unchanged.                                  *)
C4_FailingBreakChangesNothing ==
  [][ (last'.op = "Break" /\ last'.err # NoErr) =>
        /\ BreakPoints' = BreakPoints
        /\ mem' = mem
        /\ last'.ret = << >>
        /\ (PCToLine(last'.arg).fn = << >>) =>
             /\ last'.err = "InvalidAddress"
             /\ last'.einfo = << last'.arg >>
             /\ ~last'.read
             /\ ~last'.wrote
    ]_vars

C4_Witness ==
  /\ last.op = "Break"
  /\ last.err = "InvalidAddress"
  /\ ~last.read

(* C5: Clear(pc) with no record at pc fails with the no-breakpoint error,  *)
(* writes nothing and leaves the table unchanged; a Clear whose write      *)
(* fails leaves the record in the table.                                   *)
C5_FailingClearChangesNothing ==
  [][ (last'.op = "Clear") =>
        /\ (last'.arg \notin DOMAIN BreakPoints) =>
             /\ last'.err = "NoBreakpoint"
             /\ ~last'.wrote
             /\ BreakPoints' = BreakPoints
             /\ mem' = mem
        /\ (last'.arg \in DOMAIN BreakPoints /\ last'.err # NoErr) =>
             /\ last'.err = "kernel"
             /\ BreakPoints' = BreakPoints
             /\ mem' = mem
    ]_vars

C5_Witness ==
  /\ last.op = "Clear"
  /\ last.err = "NoBreakpoint"
  /\ DOMAIN BreakPoints # {}

C5_WitnessWriteFails ==
  /\ last.op = "Clear"
  /\ last.err = "kernel"
  /\ last.arg \in DOMAIN BreakPoints

EntryLine ==
  PCToLine(IF (Rip - 1) \in DOMAIN BreakPoints THEN Rip - 1 ELSE Rip).line

(* C8: when Next returns, the breakpoints installed are those installed at *)
(* entry: every temporary breakpoint is gone and no other one was removed  *)
(* or altered, on every return path.                                       *)
C8_AsStated ==
  [][ (last'.op = "Next" /\ dbg' = "ready") =>
        /\ BreakPoints' = BreakPoints
        /\ \A a \in CodeAddrs : (mem'[a] = INT3) <=> (mem[a] = INT3)
    ]_vars

(* C9: when Next returns, reporting success and with the tracee stopped,   *)
(* the source line of the tracee's PC differs from the entry line.         *)
C9_AsStated ==
  [][ (last'.op = "Next" /\ dbg' = "ready" /\ last'.err = NoErr /\ run' = "stopped") =>
        PCToLine(Rip').line # EntryLine
    ]_vars

(* C10: Next never returns with the tracee stopped inside an activation    *)
(* called from the one it started in; stated for the runs in which no      *)
(* kernel call fails and no signal arrives.                                *)
C10_AsStated ==
  [][ (/\ last'.op = "Next" /\ dbg' = "ready" /\ last'.err = NoErr
       /\ last'.quiet /\ run' = "stopped") =>
        depth' <= depth
    ]_vars

(* C13 as stated: the tracee is stopped at entry and at exit of every      *)
(* command; stated for the commands during which no kernel call fails and  *)
(* no signal arrives.                                                      *)
C13_AsStated ==
  last.quiet => run = "stopped"

(* C13 amended: a command that starts with the tracee stopped leaves it    *)
(* stopped or exited unless a wait on it failed during the command (then   *)
(* it may still be running); and a command that starts with the tracee not *)
(* stopped writes neither its memory nor its registers.                    *)
C13_StoppedBetweenCommands ==
  [][ /\ (run = "stopped" /\ ~last'.waitErr) => run' \in {"stopped", "exited"}
      /\ (run # "stopped") => (mem' = mem /\ Rip' = Rip /\ Rsp' = Rsp)
    ]_vars

C13_Witness ==
  /\ last.op \in {"Step", "Continue", "Next"}
  /\ last.err = NoErr
  /\ ~last.waitErr
  /\ run = "stopped"
  /\ Rip # 1

(* C14: when the tracee exits or disappears during a Step or Continue      *)
(* (wait reports the exit, or ECHILD), the command returns without an      *)
(* error and the recorded status says exited.                              *)
C14_AsStated ==
  [][ (/\ last'.op \in {"Step", "Continue"}
       /\ run = "stopped"
       /\ (last'.quiet /\ run' = "exited") \/ last'.echild) =>
        (last'.err = NoErr /\ ProcessState' = "exited")
    ]_vars

(* C16: no resume issued by Step, Continue or Next lets the tracee run on  *)
(* from one past a breakpoint's trap byte it has just executed, with the   *)
(* displaced instruction skipped; stated for the commands during which no  *)
(* kernel call fails and no signal arrives.                                *)
C16_AsStated ==
  (last.op \in {"Step", "Continue", "Next"} /\ last.quiet) => ~last.skipped

(* C17: whenever Step finds a breakpoint installed at pc - 1, the tracee's *)
(* most recent stop was caused by executing that trap; stated for the      *)
(* Steps during which no kernel call fails.                                *)
C17_AsStated ==
  [][ (/\ last'.op = "Step" /\ last'.quiet /\ run = "stopped"
       /\ (Rip - 1) \in DOMAIN BreakPoints) =>
        hit = Rip - 1
    ]_vars

(* C18: on every return path of Step, every breakpoint installed at entry  *)
(* is still installed at exit.                                             *)
C18_AsStated ==
  [][ (last'.op = "Step") =>
        \A a \in DOMAIN BreakPoints : a \in DOMAIN BreakPoints' /\ mem'[a] = INT3
    ]_vars

(* C19: when the single-step request or the wait after it fails, Step      *)
(* returns a non-nil error.                                                *)
C19_AsStated ==
  (last.op = "Step" /\ last.stepErr # NoErr) => last.err # NoErr

(* C20: a Next whose temporary breakpoint collides with an existing one    *)
(* (Break reports BreakpointExists) completes without crashing; stated for *)
(* the runs in which no kernel call fails and no signal arrives.           *)
C20_AsStated ==
  (last.op = "Next" /\ last.collide /\ last.quiet) => dbg = "ready"

(* ---------------- C15 ---------------- *)
Candidate(e, name) ==
  e.tag \in {"Variable", "FormalParameter"} /\ e.name = name /\ e.type # << >>

Qualifies(e, name) == Candidate(e, name) /\ e.loc # << >>

FirstOf(S) == CHOOSE i \in S : \A j \in S : i <= j

(* The word the entry's location designates in the current frame. *)
SlotOf(e) == Rsp + CFAOffset(FDEForPC(Rip)[1], Rip) + e.loc[1]

Readable(e) ==
  /\ run = "stopped"
  /\ FDEForPC(Rip) # << >>
  /\ e.type = <<"int">>
  /\ SlotOf(e) \in 1..StackSize

TraceeKept ==
  /\ mem' = mem /\ Rip' = Rip /\ Rsp' = Rsp /\ stk' = stk /\ n' = n
  /\ run' = run /\ BreakPoints' = BreakPoints

C11_AsStated ==
  (ctor.phase = "done" /\ cmd.op = "none") =>
    /\ Len(Threads) = Len(ctor.tids)
    /\ \A i \in DOMAIN Threads :
         /\ Threads[i].Id = ctor.tids[i]
         /\ kern.task[Threads[i].Id].traced
         /\ Threads[i].Status = "stopped"
    /\ CurrentThread # 0
    /\ Threads[CurrentThread].Id = Pid
    /\ Status = "stopped"

(* ---------------- C12 ---------------- *)
(* No thread can move and the debugger waits for a status that never comes. *)
Stuck ==
  /\ cmd.pos \in {"stepwait", "contwait"}
  /\ kern.task[Threads[CurrentThread].Id].report = << >>
  /\ \A t \in Tids : ~CanRun(kern, t) /\ ~(kern.task[t].st = "running" /\ kern.task[t].stopreq)

(* C12 as stated: with one breakpoint, set through the process at the      *)
(* line the other thread has yet to execute, the following Continue        *)
(* returns, without error, with the process stopped at that breakpoint.    *)
C12_AsStated ==
  (/\ ctor.phase = "done" /\ cmd.op = "Continue" /\ cmd.ahead
   /\ CurrentThread # 0
   /\ DOMAIN Threads[CurrentThread].BreakPoints = {WorkerEntry}) =>
     IF cmd.pos = "idle"
     THEN /\ cmd.err = NoErr
          /\ \E t \in Tids : /\ kern.task[t].st = "stopped"
                             /\ kern.task[t].pc = WorkerEntry + 1
                             /\ TLine[kern.task[t].pc - 1] = TLine[WorkerEntry]
     ELSE ~Stuck

(* ---------------- C21 ---------------- *)
(* C21: an error that continueToReturnAddress returns to Next, other than  *)
(* BreakpointExists (InvalidAddress of a temporary breakpoint among them), *)
(* is the error Next returns.                                              *)
C21_AsStated ==
  (last.op = "Next" /\ last.retErr \notin {NoErr, "BreakpointExists"}) =>
    last.err = last.retErr

(* ---------------- C22 ---------------- *)
(* C22: when Next clears a temporary breakpoint it sets the PC to the      *)
(* breakpoint's address only if the tracee stopped on it (PC = addr + 1    *)
(* after executing its trap byte); stated for the runs of Next in which no *)
(* kernel call fails and no signal arrives.                                *)
C22_AsStated ==
  (last.op = "Next" /\ last.quiet) => ~last.jumped

(* ---------------- C23 ---------------- *)
(* C23 as stated: between commands the table has an entry at an address if *)
(* and only if the byte at that address is 0xCC.                           *)
C23_AsStated ==
  \A a \in CodeAddrs : (a \in DOMAIN BreakPoints) <=> (mem[a] = INT3)

(* C23 amended: between commands the table has an entry at an address if   *)
(* and only if the byte there is a 0xCC that the program does not have at  *)
(* that address itself, that is, one the debugger wrote.                   *)
C23_TableIffWrittenTrap ==
  \A a \in CodeAddrs :
    (a \in DOMAIN BreakPoints) <=> (mem[a] = INT3 /\ OrigByte[a] # INT3)

(* Next has returned leaving a temporary breakpoint beside the user's one: *)
(* two records, two written traps, and the program's own 0xCC byte without *)
(* a record.                                                               *)
C23_Witness ==
  /\ last.op = "Next"
  /\ Cardinality(DOMAIN BreakPoints) = 2
  /\ \E a \in CodeAddrs : mem[a] = INT3 /\ a \notin DOMAIN BreakPoints

C25_AsStated ==
  (last.op = "EvalSymbol") => (last.nexec <= 1 /\ ~last.strayed)

(* ---------------- C26 ---------------- *)
(* C26 as stated: evaluation ends for every variable whatever the tracee's *)
(* memory holds; data that points to itself does not make the recursion    *)
(* go on without bound.  Taken where no pointer met is 0, so that every    *)
(* nested call reads at the address it was given.                          *)
C26_AsStated ==
  (last.op = "EvalSymbol" /\ last.nexec = 1 /\ ~last.strayed) => ~last.overflow

(* ---------------- C27 ---------------- *)
(* C27 as stated: once the 16 bytes at a string's data pointer are read,   *)
(* the evaluation returns a value, the bytes before the first NUL or all   *)
(* of them when there is none; it neither fails nor crashes.               *)
C27_AsStated ==
  (last.op = "EvalSymbol" /\ last.window # << >>) =>
     /\ last.err = NoErr /\ dbg = "ready"
     /\ (DWARF.entries[1].type = <<"string">>) =>
          last.ret[1].Value =
            Chars(IF IndexByte(last.window[1], 0) < 0 THEN last.window[1]
                  ELSE SubSeq(last.window[1], 1, IndexByte(last.window[1], 0)))
====
